---- MODULE Spec2Model ----
(***************************************************************************)
(* Parking-lot reservation manager (src/app.py, src/models.py).            *)
(*                                                                         *)
(* The state is the committed content of the four tables, the session      *)
(* cookie of the browser, the wall clock, and the answer to the last       *)
(* request.  Every request handler is one action; a commit that the        *)
(* database refuses is an input (ok = FALSE) of the handler.  SpecRace     *)
(* runs book_spot in two steps, the lookup and the commit, with the        *)
(* requests between the two kept in in_flight.  The answer                 *)
(* is kept as the kind of outcome the flashed message or the HTTP error    *)
(* stands for: Success, Validation, LoginRequired, Unauthorized,           *)
(* NoAvailability, Conflict, Persistence, NotFound, ServerError.           *)
(*                                                                         *)
(* Numbers.  Time is counted in ticks, TicksPerHour ticks to the hour.     *)
(* price_per_hour is counted in units of 1/PriceScale of the currency.     *)
(* Both scales are powers of two, so every duration, price and product     *)
(* modelled is a binary fraction that a Python float holds exactly, and    *)
(* round(x, 2) is then exact round-half-to-even.  total_charge is counted  *)
(* in hundredths of the currency.                                          *)
(***************************************************************************)
EXTENDS Integers, Sequences, FiniteSets, TLC

VARIABLES users, lots, spots, bookings, session, now, entry_time_default,
          response, in_flight

vars == <<users, lots, spots, bookings, session, now, entry_time_default,
          response, in_flight>>

\* ------------------------------------------------------------------ bounds
MaxLots == 2
MaxBookings == 2
MaxUsers == 2
MaxClock == 1
MaxInFlight == 2

\* --------------------------------------------------------- numeric scales
TicksPerHour == 2
PriceScale == 8

\* ------------------------------------------------------- request inputs
\* request.form['total_spots'] after int() and request.form['price_per_hour']
\* after float(): any integer and any number are accepted.  The lots asked
\* for: two spots at 1.25 an hour, two spots at -1.0 an hour, and -1 spots.
LotForms == {<<2, 10>>, <<2, -8>>, <<-1, 10>>}
Usernames == {"admin", "Admin", "alice"}
Passwords == {"admin123", "pw"}
Vehicles == {"KA01"}
LotIds == 1..MaxLots
BookingIds == 1..MaxBookings

\* ------------------------------------------------------------- helpers
\* A nullable column: NULL, or one value.
NULL == <<>>
Some(v) == <<v>>
Nullable(S) == {x \in Seq(S) : Len(x) <= 1}

Max(S) == CHOOSE x \in S : \A y \in S : y <= x
Min(S) == CHOOSE x \in S : \A y \in S : x <= y

\* An INTEGER PRIMARY KEY of SQLite without AUTOINCREMENT: one more than the
\* largest id in the table, so the id of a deleted last row is given out again.
NextId(ids) == IF ids = {} THEN 1 ELSE Max(ids) + 1

\* f"{i:03d}": the decimal digits of i, padded with zeros to three places.
RECURSIVE Digits(_)
Digits(i) == IF i < 10 THEN <<i>> ELSE Append(Digits(i \div 10), i % 10)

Format03d(i) ==
    LET d == Digits(i)
    IN  IF Len(d) >= 3 THEN d
        ELSE [k \in 1..3 |-> IF k <= 3 - Len(d) THEN 0 ELSE d[k - (3 - Len(d))]]

\* str.lower() on the usernames of the model.
Lower(s) == IF s = "Admin" THEN "admin" ELSE s

generate_password_hash(password) == <<"hash", password>>
check_password_hash(hash, password) == hash = <<"hash", password>>

\* round(n / d, 0) of Python for d > 0: to the nearest integer, ties to even.
RoundHalfEven(n, d) ==
    LET q == n \div d
        r == n % d
    IN  IF 2 * r < d THEN q
        ELSE IF 2 * r > d THEN q + 1
        ELSE IF q % 2 = 0 THEN q ELSE q + 1

\* round(hours_parked * price_per_hour, 2), in hundredths, for a stay of
\* `ticks` ticks at `price` units per hour.
Charge(ticks, price) ==
    RoundHalfEven(ticks * price * 100, TicksPerHour * PriceScale)

LoggedIn == "user_id" \in DOMAIN session
IsAdmin == LoggedIn /\ session.is_admin

SpotsOf(lot_id) == {s \in DOMAIN spots : spots[s].lot_id = lot_id}
OccupiedSpots(lot_id) == {s \in SpotsOf(lot_id) : spots[s].is_occupied}
FreeSpots(lot_id) == {s \in SpotsOf(lot_id) : ~spots[s].is_occupied}

\* ---------------------------------------------------------------- tables
\* The rows of the four tables.  name and location of a lot are kept by no
\* handler but add_lot, which only stores them, and are left out.
User ==
    [username : Usernames,
     password : {generate_password_hash(p) : p \in Passwords},
     is_admin : BOOLEAN]

ParkingLot == [total_spots : Int, price_per_hour : Int]

ParkingSpot == [spot_number : Seq(0..9), lot_id : Nat, is_occupied : BOOLEAN]

ParkingBooking ==
    [user_id : Nat,
     spot_id : Nat,
     vehicle_number : Vehicles,
     entry_time : Nat,
     exit_time : Nullable(Nat),
     total_charge : Nullable(Int),
     status : {"active", "completed", "cancelled"}]

\* A book_spot request between its lookup and its commit: the user of its
\* session, the spot its lookup returned, the vehicle of its form.
InFlight == [user_id : Nat, spot_id : Nat, vehicle_number : Vehicles]

\* users and bookings are never deleted from: their ids are 1 .. Len.  lots
\* and spots are functions from the ids in use.
TypeOK ==
    /\ users \in Seq(User)
    /\ \A l \in DOMAIN lots : l \in Nat /\ lots[l] \in ParkingLot
    /\ \A s \in DOMAIN spots : s \in Nat /\ spots[s] \in ParkingSpot
    /\ bookings \in Seq(ParkingBooking)
    /\ session = <<>> \/ session \in [user_id : DOMAIN users,
                                       username : Usernames,
                                       is_admin : BOOLEAN]
    /\ now \in Nat /\ entry_time_default \in Nat
    /\ response \in {"None", "Success", "Validation", "LoginRequired",
                      "Unauthorized", "NoAvailability", "Conflict",
                      "Persistence", "NotFound", "ServerError"}
    /\ in_flight \in Seq(InFlight)

\* ---------------------------------------------------------------- Init
\* The state after the bootstrap of a fresh install: the tables exist, the
\* administrator account is the only user, nobody is logged in.  The default
\* of ParkingBooking.entry_time was evaluated when models.py was imported.
Init ==
    /\ users = <<[username |-> "admin",
                  password |-> generate_password_hash("admin123"),
                  is_admin |-> TRUE]>>
    /\ lots = <<>>
    /\ spots = <<>>
    /\ bookings = <<>>
    /\ session = <<>>
    /\ now = 0
    /\ entry_time_default = 0
    /\ response = "None"
    /\ in_flight = <<>>

\* ------------------------------------------------------------- actions
\* The wall clock advances between requests.
Tick ==
    /\ now < MaxClock
    /\ now' = now + 1
    /\ UNCHANGED <<users, lots, spots, bookings, session, entry_time_default,
                   response, in_flight>>

login(username, password) ==
    LET found == {u \in DOMAIN users : users[u].username = username}
        user == IF found = {} THEN 0 ELSE Min(found)
    IN  /\ IF user # 0 /\ check_password_hash(users[user].password, password)
           THEN /\ session' = [user_id |-> user,
                               username |-> users[user].username,
                               is_admin |-> users[user].is_admin]
                /\ response' = "Success"    \* Logged in successfully!
           ELSE /\ response' = "Validation"    \* Invalid username or password
                /\ UNCHANGED session
        /\ UNCHANGED <<users, lots, spots, bookings, now, entry_time_default,
                   in_flight>>

\* A registration that creates an administrator.
NewUser_admin(username, password) ==
    [username |-> username,
     password |-> generate_password_hash(password),
     is_admin |-> TRUE]

\* User(username=..., password=generate_password_hash(...), is_admin=False).
NewUser(username, password) ==
    [username |-> username,
     password |-> generate_password_hash(password),
     is_admin |-> FALSE]

register(username, password, ok) ==
    /\ IF \E u \in DOMAIN users : users[u].username = username
       THEN /\ response' = "Validation"    \* Username already exists
            /\ UNCHANGED users
       ELSE IF Lower(username) = "admin"
       THEN /\ response' = "Validation"    \* This username is not allowed
            /\ UNCHANGED users
       ELSE IF ok
       THEN /\ Len(users) < MaxUsers
            /\ users' = Append(users, NewUser(username, password))
            /\ response' = "Success"    \* Registration successful! Please login.
       ELSE /\ response' = "Persistence"    \* Error occurred during registration
            /\ UNCHANGED users
    /\ UNCHANGED <<lots, spots, bookings, session, now, entry_time_default,
                   in_flight>>

logout ==
    /\ session' = <<>>
    /\ response' = "Success"    \* Logged out successfully
    /\ UNCHANGED <<users, lots, spots, bookings, now, entry_time_default,
                   in_flight>>

\* The spot rows add_lot inserts for lot `lot_id`: one per i in
\* range(1, total_spots + 1), numbered on from the largest spot id.
NewSpots(lot_id, total_spots) ==
    LET base == IF DOMAIN spots = {} THEN 0 ELSE Max(DOMAIN spots)
    IN  [s \in (base + 1)..(base + total_spots) |->
            [spot_number |-> Format03d(s - base),
             lot_id |-> lot_id,
             is_occupied |-> FALSE]]

\* ok1 and ok2: whether the first commit (the lot) and the second commit (its
\* spots) go through.
add_lot(total_spots, price_per_hour, ok1, ok2) ==
    /\ IF ~IsAdmin
       THEN /\ response' = "LoginRequired"    \* Admin access required
            /\ UNCHANGED <<lots, spots>>
       ELSE IF ~ok1
       THEN /\ response' = "Persistence"    \* Error occurred while adding parking lot
            /\ UNCHANGED <<lots, spots>>
       ELSE LET id == NextId(DOMAIN lots)
                lot == [total_spots |-> total_spots,
                        price_per_hour |-> price_per_hour]
                new == NewSpots(id, total_spots)
            IN  /\ id <= MaxLots
                /\ lots' = [l \in DOMAIN lots \cup {id} |->
                               IF l = id THEN lot ELSE lots[l]]
                /\ IF ok2
                   THEN /\ spots' = [s \in DOMAIN spots \cup DOMAIN new |->
                                        IF s \in DOMAIN new THEN new[s]
                                        ELSE spots[s]]
                        /\ response' = "Success"    \* Parking lot added successfully!
                   ELSE /\ response' = "Persistence"    \* Error occurred while adding parking lot
                        /\ UNCHANGED spots
    /\ UNCHANGED <<users, bookings, session, now, entry_time_default,
                   in_flight>>

\* The lookup without its is_occupied filter: the first spot of the lot.
available_spot_unfiltered(lot_id) ==
    IF SpotsOf(lot_id) = {} THEN 0 ELSE Min(SpotsOf(lot_id))

\* A lookup that falls back on the lot's first spot when none is free.
available_spot_or_first(lot_id) ==
    IF FreeSpots(lot_id) # {} THEN Min(FreeSpots(lot_id))
    ELSE IF SpotsOf(lot_id) # {} THEN Min(SpotsOf(lot_id))
    ELSE 0

\* A lookup that takes the lot's last free spot in rowid order.
available_spot_last(lot_id) ==
    IF FreeSpots(lot_id) = {} THEN 0 ELSE Max(FreeSpots(lot_id))

\* ParkingSpot.query.filter_by(lot_id=lot_id, is_occupied=False).first():
\* the free spot of the lot that comes first in rowid order, 0 for None.
available_spot(lot_id) ==
    IF FreeSpots(lot_id) = {} THEN 0 ELSE Min(FreeSpots(lot_id))

\* A booking row whose status column defaults to 'completed'.
NewBooking_completed(user_id, spot_id, vehicle_number) ==
    [user_id |-> user_id,
     spot_id |-> spot_id,
     vehicle_number |-> vehicle_number,
     entry_time |-> entry_time_default,
     exit_time |-> NULL,
     total_charge |-> NULL,
     status |-> "completed"]

\* ParkingBooking(user_id=..., spot_id=..., vehicle_number=...): the columns
\* not given take their defaults.
NewBooking(user_id, spot_id, vehicle_number) ==
    [user_id |-> user_id,
     spot_id |-> spot_id,
     vehicle_number |-> vehicle_number,
     entry_time |-> entry_time_default,
     exit_time |-> NULL,
     total_charge |-> NULL,
     status |-> "active"]

\* A rollback that loses the booking and keeps the spot's flag.
book_spot_keeps_flag(spot) ==
    /\ spots' = [spots EXCEPT ![spot].is_occupied = TRUE]
    /\ UNCHANGED bookings

\* db.session.rollback() after the failed commit of book_spot.
book_spot_rollback(spot) == UNCHANGED <<spots, bookings>>

book_spot(lot_id, vehicle_number, ok) ==
    /\ IF ~LoggedIn
       THEN /\ response' = "LoginRequired"    \* Please login first
            /\ UNCHANGED <<spots, bookings>>
       ELSE IF available_spot(lot_id) # 0
       THEN LET spot == available_spot(lot_id)
            IN  IF ok
                THEN /\ Len(bookings) < MaxBookings
                     /\ bookings' = Append(bookings,
                            NewBooking(session.user_id, spot, vehicle_number))
                     /\ spots' = [spots EXCEPT ![spot].is_occupied = TRUE]
                     /\ response' = "Success"    \* Spot booked successfully!
                ELSE /\ book_spot_rollback(spot)
                     /\ response' = "Persistence"    \* Error occurred while booking spot
       ELSE /\ response' = "NoAvailability"    \* No spots available in selected lot
            /\ UNCHANGED <<spots, bookings>>
    /\ UNCHANGED <<users, lots, session, now, entry_time_default, in_flight>>

\* The ownership test left out.
NotOwner_unchecked(booking_id) == FALSE

\* booking.user_id != session['user_id']
NotOwner(booking_id) == bookings[booking_id].user_id # session.user_id

\* db.session.rollback() after the failed commit of exit_parking.
exit_parking_rollback(booking_id) == UNCHANGED <<spots, bookings>>

exit_parking(booking_id, ok) ==
    /\ IF ~LoggedIn
       THEN /\ response' = "LoginRequired"    \* Please login first
            /\ UNCHANGED <<spots, bookings>>
       ELSE IF booking_id \notin DOMAIN bookings
       THEN /\ response' = "NotFound"    \* get_or_404
            /\ UNCHANGED <<spots, bookings>>
       ELSE IF NotOwner(booking_id)
       THEN /\ response' = "Unauthorized"    \* Unauthorized access
            /\ UNCHANGED <<spots, bookings>>
       ELSE IF bookings[booking_id].spot_id \notin DOMAIN spots
       THEN \* booking.spot is None: booking.spot.lot raises AttributeError
            /\ response' = "ServerError"
            /\ UNCHANGED <<spots, bookings>>
       ELSE LET booking == bookings[booking_id]
                exit_time == now
                hours_parked == exit_time - booking.entry_time
                price_per_hour == lots[spots[booking.spot_id].lot_id].price_per_hour
            IN  IF ok
                THEN /\ bookings' = [bookings EXCEPT ![booking_id] =
                            [@ EXCEPT !.exit_time = Some(exit_time),
                                      !.total_charge =
                                          Some(Charge(hours_parked, price_per_hour)),
                                      !.status = "completed"]]
                     /\ spots' = [spots EXCEPT ![booking.spot_id].is_occupied = FALSE]
                     /\ response' = "Success"    \* Thank you for using our parking service! ...
                ELSE /\ exit_parking_rollback(booking_id)
                     /\ response' = "Persistence"    \* Error occurred while processing exit
    /\ UNCHANGED <<users, lots, session, now, entry_time_default, in_flight>>

\* The count taken over free spots instead of occupied ones.
occupied_spots_inverted(lot_id) == Cardinality(FreeSpots(lot_id))

\* ParkingSpot.query.filter_by(lot_id=lot.id, is_occupied=True).count()
occupied_spots(lot_id) == Cardinality(OccupiedSpots(lot_id))

\* The route has no decorator: the session is not looked at.  The commit is
\* not inside a try: a failed commit ends the request with an exception and
\* the transaction is discarded with the session.
delete_lot(lot_id, ok) ==
    /\ IF lot_id \notin DOMAIN lots
       THEN /\ response' = "NotFound"    \* get_or_404
            /\ UNCHANGED <<lots, spots>>
       ELSE IF occupied_spots(lot_id) > 0
       THEN /\ response' = "Conflict"    \* Cannot delete lot. Some spots are still occupied.
            /\ UNCHANGED <<lots, spots>>
       ELSE IF ok
       THEN /\ spots' = [s \in DOMAIN spots \ SpotsOf(lot_id) |-> spots[s]]
            /\ lots' = [l \in DOMAIN lots \ {lot_id} |-> lots[l]]
            /\ response' = "Success"    \* Lot deleted successfully.
       ELSE /\ response' = "ServerError"
            /\ UNCHANGED <<lots, spots>>
    /\ UNCHANGED <<users, bookings, session, now, entry_time_default,
                   in_flight>>

\* ------------------------------------------------- book_spot in two steps
\* The first half of book_spot, up to the spot the lookup returns.  A request
\* that is not logged in or finds no spot is answered at once.
book_spot_lookup(lot_id, vehicle_number) ==
    /\ IF ~LoggedIn
       THEN /\ response' = "LoginRequired"    \* Please login first
            /\ UNCHANGED in_flight
       ELSE IF available_spot(lot_id) # 0
       THEN /\ Len(in_flight) < MaxInFlight
            /\ in_flight' = Append(in_flight,
                                   [user_id |-> session.user_id,
                                    spot_id |-> available_spot(lot_id),
                                    vehicle_number |-> vehicle_number])
            /\ UNCHANGED response
       ELSE /\ response' = "NoAvailability"    \* No spots available in selected lot
            /\ UNCHANGED in_flight
    /\ UNCHANGED <<users, lots, spots, bookings, session, now, entry_time_default>>

\* A commit that writes the flag only while the spot is still unoccupied.
spot_row_writable_if_free(spot_id) ==
    spot_id \in DOMAIN spots /\ ~spots[spot_id].is_occupied

\* UPDATE parking_spot SET is_occupied=1 WHERE id = spot_id: the flush goes
\* through when the row exists, whatever its flag holds by now.
spot_row_writable(spot_id) == spot_id \in DOMAIN spots

\* The second half of book_spot: the booking is added, the spot is flagged,
\* and both are committed, or rolled back when the flush or the commit fails.
book_spot_commit(r, ok) ==
    /\ r \in DOMAIN in_flight
    /\ in_flight' = [i \in 1..(Len(in_flight) - 1) |->
                        IF i < r THEN in_flight[i] ELSE in_flight[i + 1]]
    /\ IF ok /\ spot_row_writable(in_flight[r].spot_id)
       THEN /\ Len(bookings) < MaxBookings
            /\ bookings' = Append(bookings,
                                  NewBooking(in_flight[r].user_id,
                                             in_flight[r].spot_id,
                                             in_flight[r].vehicle_number))
            /\ spots' = [spots EXCEPT ![in_flight[r].spot_id].is_occupied = TRUE]
            /\ response' = "Success"    \* Spot booked successfully!
       ELSE /\ book_spot_rollback(in_flight[r].spot_id)
            /\ response' = "Persistence"    \* Error occurred while booking spot
    /\ UNCHANGED <<users, lots, session, now, entry_time_default>>

\* ---------------------------------------------------------- specification
Next ==
    \/ Tick
    \/ \E u \in Usernames, p \in Passwords : login(u, p)
    \/ \E u \in Usernames, ok \in BOOLEAN : register(u, "pw", ok)
    \/ logout
    \/ \E f \in LotForms, ok1, ok2 \in BOOLEAN : add_lot(f[1], f[2], ok1, ok2)
    \/ \E l \in LotIds, v \in Vehicles, ok \in BOOLEAN : book_spot(l, v, ok)
    \/ \E b \in BookingIds, ok \in BOOLEAN : exit_parking(b, ok)
    \/ \E l \in LotIds, ok \in BOOLEAN : delete_lot(l, ok)

Spec == Init /\ [][Next]_vars

\* Requests of several browsers overlap: a book_spot may commit after other
\* requests have run since its lookup.  The lots asked for have one spot.
NextRace ==
    \/ Tick
    \/ \E u \in Usernames, p \in Passwords : login(u, p)
    \/ \E u \in Usernames, ok \in BOOLEAN : register(u, "pw", ok)
    \/ logout
    \/ \E ok1, ok2 \in BOOLEAN : add_lot(1, 10, ok1, ok2)
    \/ \E l \in LotIds, v \in Vehicles : book_spot_lookup(l, v)
    \/ \E r \in 1..MaxInFlight, ok \in BOOLEAN : book_spot_commit(r, ok)
    \/ \E b \in BookingIds, ok \in BOOLEAN : exit_parking(b, ok)
    \/ \E l \in LotIds, ok \in BOOLEAN : delete_lot(l, ok)

SpecRace == Init /\ [][NextRace]_vars

\* ================================================================ claims
ActiveBookingsOn(s) ==
    {b \in DOMAIN bookings : bookings[b].spot_id = s /\ bookings[b].status = "active"}

FreeCount(sp, lot_id) ==
    Cardinality({s \in DOMAIN sp : sp[s].lot_id = lot_id /\ ~sp[s].is_occupied})

\* C1: in every reachable state each existing spot is occupied if and only if
\* exactly one active booking references it.
C1_OccupiedIffOneActive ==
    \A s \in DOMAIN spots :
        spots[s].is_occupied <=> Cardinality(ActiveBookingsOn(s)) = 1

\* C2: exit_time and total_charge of a booking are written once, while the
\* booking is active; a completed booking never has them changed again.
C2_ExitWrittenOnce ==
    [][\A b \in DOMAIN bookings :
          bookings[b].status = "completed" =>
              /\ bookings'[b].exit_time = bookings[b].exit_time
              /\ bookings'[b].total_charge = bookings[b].total_charge]_vars

\* C3: delete_lot on a lot with an occupied spot changes no lot, spot or
\* booking and reports the conflict; delete_lot on a lot with no occupied
\* spot, its commit going through, removes the lot and every spot of it and
\* leaves every other lot, every other spot and the bookings as they were.
C3_DeleteLotContract ==
    [][\A l \in LotIds, ok \in BOOLEAN :
          (delete_lot(l, ok) /\ l \in DOMAIN lots) =>
              /\ OccupiedSpots(l) # {} =>
                    /\ UNCHANGED <<lots, spots, bookings>>
                    /\ response' = "Conflict"
              /\ (OccupiedSpots(l) = {} /\ ok) =>
                    /\ response' = "Success"
                    /\ DOMAIN lots' = DOMAIN lots \ {l}
                    /\ \A o \in DOMAIN lots' : lots'[o] = lots[o]
                    /\ DOMAIN spots' = DOMAIN spots \ SpotsOf(l)
                    /\ \A s \in DOMAIN spots' : spots'[s] = spots[s]
                    /\ UNCHANGED bookings]_vars

\* C3 witness: lot 1 and its spots 1 and 2 have been deleted; lot 2 is left
\* with its spots 3 and 4, one of them occupied.
C3_Witness ==
    /\ DOMAIN lots = {2}
    /\ DOMAIN spots = {3, 4}
    /\ SpotsOf(2) = {3, 4}
    /\ OccupiedSpots(2) # {}

\* C4: the booking a successful book_spot creates has entry_time equal to the
\* clock at the moment of the request.
C4_EntryTimeIsBookingTime ==
    [][Len(bookings') > Len(bookings) =>
          bookings'[Len(bookings')].entry_time = now]_vars

\* C5: requests run one after the other.  A book_spot on a lot with a free
\* spot, its commit going through, succeeds and lowers the lot's count of
\* free spots by exactly one; a book_spot on a lot with no free spot fails
\* with the no-availability answer and changes nothing.
C5_BookSpotAllocates ==
    [][\A l \in LotIds, v \in Vehicles, ok \in BOOLEAN :
          (book_spot(l, v, ok) /\ LoggedIn /\ l \in DOMAIN lots) =>
              /\ (FreeCount(spots, l) > 0 /\ ok) =>
                    /\ response' = "Success"
                    /\ FreeCount(spots', l) = FreeCount(spots, l) - 1
                    /\ Len(bookings') = Len(bookings) + 1
              /\ FreeCount(spots, l) = 0 =>
                    /\ response' = "NoAvailability"
                    /\ UNCHANGED <<lots, spots, bookings>>]_vars

\* C5 witness: a lot of two spots has had both booked, and the next book_spot
\* was answered with no availability.
C5_Witness ==
    /\ response = "NoAvailability"
    /\ \E l \in DOMAIN lots :
          /\ lots[l].total_spots = 2
          /\ FreeCount(spots, l) = 0
          /\ \A s \in SpotsOf(l) : Cardinality(ActiveBookingsOn(s)) = 1

\* C6: in every reachable state the occupied spots of a lot number at most
\* the lot's total_spots.
C6_OccupiedWithinTotal ==
    \A l \in DOMAIN lots : Cardinality(OccupiedSpots(l)) <= lots[l].total_spots

\* C7: exit_parking by a logged-in user who does not own the booking is
\* answered unauthorized and leaves the bookings and the spots as they were;
\* a booking goes from active to completed only in a request of its owner.
C7_OnlyOwnerChecksOut ==
    [][/\ \A b \in BookingIds, ok \in BOOLEAN :
             (/\ exit_parking(b, ok)
              /\ LoggedIn
              /\ b \in DOMAIN bookings
              /\ bookings[b].user_id # session.user_id) =>
                 /\ response' = "Unauthorized"
                 /\ UNCHANGED <<bookings, spots>>
       /\ \A b \in DOMAIN bookings :
             (bookings[b].status = "active" /\ bookings'[b].status = "completed") =>
                 /\ LoggedIn
                 /\ session.user_id = bookings[b].user_id]_vars

\* C7 witness: the logged-in user has just been refused the checkout of an
\* active booking of somebody else.
C7_Witness ==
    /\ response = "Unauthorized"
    /\ LoggedIn
    /\ \E b \in DOMAIN bookings :
          /\ bookings[b].user_id # session.user_id
          /\ bookings[b].status = "active"
          /\ bookings[b].spot_id \in DOMAIN spots
          /\ spots[bookings[b].spot_id].is_occupied

\* C8: book_spot and exit_parking are all-or-nothing.  A request whose
\* commit fails leaves every table as it was.  A booking appears
\* exactly when a spot goes from free to occupied, and it is the booking of
\* that spot.  A booking whose exit_time, total_charge or status changes ends
\* the step completed, with both values set and its spot free; and a spot
\* goes from occupied to free only with such a booking.
C8_CommitAllOrNothing ==
    [][/\ \A l \in LotIds, v \in Vehicles :
             book_spot(l, v, FALSE) => UNCHANGED <<users, lots, spots, bookings>>
       /\ \A b \in BookingIds :
             exit_parking(b, FALSE) => UNCHANGED <<users, lots, spots, bookings>>
       /\ Len(bookings') > Len(bookings) =>
             /\ Len(bookings') = Len(bookings) + 1
             /\ \A b \in DOMAIN bookings : bookings'[b] = bookings[b]
             /\ LET s == bookings'[Len(bookings')].spot_id
                IN  /\ s \in DOMAIN spots /\ ~spots[s].is_occupied
                    /\ spots' = [spots EXCEPT ![s].is_occupied = TRUE]
       /\ \A s \in DOMAIN spots \cap DOMAIN spots' :
             (~spots[s].is_occupied /\ spots'[s].is_occupied) =>
                 /\ Len(bookings') = Len(bookings) + 1
                 /\ bookings'[Len(bookings')].spot_id = s
       /\ \A b \in DOMAIN bookings :
             bookings'[b] # bookings[b] =>
                 /\ bookings'[b].status = "completed"
                 /\ bookings'[b].exit_time = Some(now)
                 /\ bookings'[b].total_charge # NULL
                 /\ ~spots'[bookings[b].spot_id].is_occupied
                 /\ response' = "Success"
       /\ \A s \in DOMAIN spots \cap DOMAIN spots' :
             (spots[s].is_occupied /\ ~spots'[s].is_occupied) =>
                 \E b \in DOMAIN bookings :
                     /\ bookings[b].spot_id = s
                     /\ bookings'[b].status = "completed"
                     /\ bookings'[b].exit_time = Some(now)]_vars

\* C8 witness: a commit of the logged-in user, who is no administrator, has
\* just failed, and the user's booking is still active, without exit_time or
\* charge, on a spot that is still occupied.
C8_Witness ==
    /\ response = "Persistence"
    /\ LoggedIn
    /\ ~session.is_admin
    /\ \E b \in DOMAIN bookings :
          /\ bookings[b].user_id = session.user_id
          /\ bookings[b].status = "active"
          /\ bookings[b].exit_time = NULL
          /\ bookings[b].total_charge = NULL
          /\ bookings[b].spot_id \in DOMAIN spots
          /\ spots[bookings[b].spot_id].is_occupied

\* C9: in every reachable state every lot has exactly total_spots spots,
\* labelled 001 .. total_spots.
C9_LotHasItsSpots ==
    \A l \in DOMAIN lots :
        /\ Cardinality(SpotsOf(l)) = lots[l].total_spots
        /\ {spots[s].spot_number : s \in SpotsOf(l)} =
               {<<0, 0, i>> : i \in 1..lots[l].total_spots}

\* C10: the charge a checkout stores is round(elapsed hours * price, 2), and
\* it is at least the charge any booking with the same entry time was given
\* at the same price for a checkout that was not later.
C10_ChargeRoundedAndMonotonic ==
    [][\A b \in DOMAIN bookings :
          (exit_parking(b, TRUE) /\ response' = "Success") =>
              LET price == lots[spots[bookings[b].spot_id].lot_id].price_per_hour
                  entry == bookings[b].entry_time
              IN  /\ bookings'[b].total_charge =
                         Some(RoundHalfEven((now - entry) * price * 100,
                                            TicksPerHour * PriceScale))
                  /\ \A c \in DOMAIN bookings :
                        (/\ bookings[c].status = "completed"
                         /\ bookings[c].entry_time = entry
                         /\ bookings[c].exit_time[1] <= now
                         /\ bookings[c].total_charge =
                                Some(Charge(bookings[c].exit_time[1] - entry, price)))
                        => bookings[c].total_charge[1] <= bookings'[b].total_charge[1]]_vars

\* C11: a book_spot of a logged-in user on a lot that has no free spot is
\* answered with no availability and changes no user, lot, spot or booking.
C11_FullLotBookingChangesNothing ==
    [][\A l \in LotIds, v \in Vehicles, ok \in BOOLEAN :
          (/\ book_spot(l, v, ok)
           /\ LoggedIn
           /\ \A s \in DOMAIN spots : spots[s].lot_id = l => spots[s].is_occupied)
          => /\ response' = "NoAvailability"
             /\ UNCHANGED <<users, lots, spots, bookings>>]_vars

\* C11 witness: a customer was answered with no availability while a lot
\* with spots has every spot occupied.
C11_Witness ==
    /\ response = "NoAvailability"
    /\ LoggedIn /\ ~session.is_admin
    /\ \E l \in DOMAIN lots :
          /\ SpotsOf(l) # {}
          /\ \A s \in SpotsOf(l) : spots[s].is_occupied

\* C12: every booking created comes from a book_spot for a lot L and is on a
\* spot of L that was unoccupied before the request, the first such spot in
\* storage order; and in a lot of two spots whose only booking, on spot 001,
\* has been checked out, the next book_spot is given spot 001 again.
C12_FirstFreeSpotOfLot ==
    [][/\ Len(bookings') > Len(bookings) =>
             \E l \in LotIds, v \in Vehicles :
                 LET s == bookings'[Len(bookings')].spot_id
                 IN  /\ book_spot(l, v, TRUE)
                     /\ s \in DOMAIN spots
                     /\ spots[s].lot_id = l
                     /\ ~spots[s].is_occupied
                     /\ \A t \in DOMAIN spots :
                           (spots[t].lot_id = l /\ ~spots[t].is_occupied) => s <= t
                     /\ spots'[s].is_occupied
       /\ \A l \in DOMAIN lots, v \in Vehicles :
             (/\ book_spot(l, v, TRUE)
              /\ LoggedIn
              /\ lots[l].total_spots = 2
              /\ Len(bookings) = 1
              /\ bookings[1].status = "completed"
              /\ bookings[1].spot_id \in DOMAIN spots
              /\ spots[bookings[1].spot_id].lot_id = l
              /\ spots[bookings[1].spot_id].spot_number = <<0, 0, 1>>)
             => /\ Len(bookings') = 2
                /\ bookings'[2].status = "active"
                /\ bookings'[2].spot_id = bookings[1].spot_id]_vars

\* C12 witness: the first booking, on spot 001 of a lot of two spots, was
\* checked out, and the second booking is active on the same spot.
C12_Witness ==
    /\ Len(bookings) = 2
    /\ bookings[1].status = "completed"
    /\ bookings[2].status = "active"
    /\ bookings[2].spot_id = bookings[1].spot_id
    /\ bookings[1].spot_id \in DOMAIN spots
    /\ spots[bookings[1].spot_id].spot_number = <<0, 0, 1>>
    /\ spots[bookings[1].spot_id].is_occupied
    /\ spots[bookings[1].spot_id].lot_id \in DOMAIN lots
    /\ lots[spots[bookings[1].spot_id].lot_id].total_spots = 2
    /\ Cardinality(SpotsOf(spots[bookings[1].spot_id].lot_id)) = 2

\* C13: a booking is created with status 'active'; no step deletes a booking
\* or changes its user_id, spot_id, vehicle_number or entry_time; a status
\* changes only from 'active' to 'completed', in a checkout of that booking
\* by exit_parking; a completed booking stays completed; no booking ever has
\* the status 'cancelled'.
C13_BookingLifecycle ==
    [][/\ Len(bookings') >= Len(bookings)
       /\ \A b \in DOMAIN bookings' \ DOMAIN bookings :
             bookings'[b].status = "active"
       /\ \A b \in DOMAIN bookings :
             /\ bookings'[b].user_id = bookings[b].user_id
             /\ bookings'[b].spot_id = bookings[b].spot_id
             /\ bookings'[b].vehicle_number = bookings[b].vehicle_number
             /\ bookings'[b].entry_time = bookings[b].entry_time
             /\ bookings[b].status \in {"active", "completed"}
             /\ bookings'[b].status \in {"active", "completed"}
             /\ bookings[b].status = "completed" => bookings'[b].status = "completed"
             /\ bookings'[b].status # bookings[b].status =>
                   /\ bookings[b].status = "active"
                   /\ bookings'[b].status = "completed"
                   /\ exit_parking(b, TRUE)]_vars

\* C13 witness: one booking has been checked out twice, the second time at a
\* later clock, while another booking is still active.
C13_Witness ==
    /\ Len(bookings) = 2
    /\ \E b, c \in DOMAIN bookings :
          /\ bookings[b].status = "completed"
          /\ bookings[b].exit_time = Some(1)
          /\ bookings[b].entry_time = 0
          /\ bookings[c].status = "active"
          /\ bookings[c].spot_id = bookings[b].spot_id
          /\ bookings[c].spot_id \in DOMAIN spots
          /\ ~spots[bookings[c].spot_id].is_occupied

\* C14: no request ends in an unhandled error: every answer is a success or
\* a reported failure, also for exit_parking on a booking whose lot has been
\* deleted and for delete_lot whose commit fails.
C14_NoUnhandledError ==
    response # "ServerError"

\* C15: a request that names a record that does not exist is answered with
\* NotFound and changes nothing: exit_parking with an unknown booking id,
\* delete_lot with an unknown lot id, book_spot with an unknown lot id.
C15_UnknownIdIsNotFound ==
    [][/\ \A b \in BookingIds, ok \in BOOLEAN :
             (exit_parking(b, ok) /\ LoggedIn /\ b \notin DOMAIN bookings) =>
                 /\ response' = "NotFound"
                 /\ UNCHANGED <<users, lots, spots, bookings>>
       /\ \A l \in LotIds, ok \in BOOLEAN :
             (delete_lot(l, ok) /\ l \notin DOMAIN lots) =>
                 /\ response' = "NotFound"
                 /\ UNCHANGED <<users, lots, spots, bookings>>
       /\ \A l \in LotIds, v \in Vehicles, ok \in BOOLEAN :
             (book_spot(l, v, ok) /\ LoggedIn /\ l \notin DOMAIN lots) =>
                 /\ response' = "NotFound"
                 /\ UNCHANGED <<users, lots, spots, bookings>>]_vars

\* The user table as registration must keep it: usernames are unique, and
\* the first account, admin with the password admin123, is the only
\* administrator.
UsersWellFormed(u) ==
    /\ \A i, j \in DOMAIN u : u[i].username = u[j].username => i = j
    /\ Len(u) >= 1
    /\ u[1].username = "admin"
    /\ check_password_hash(u[1].password, "admin123")
    /\ \A i \in DOMAIN u : u[i].is_admin <=> i = 1

\* C16: after any step the usernames are unique and the bootstrap account
\* exists and is the only administrator; register with the username admin
\* or with a username already present is rejected and leaves the users as
\* they were; a login as admin with admin123 succeeds as administrator.
C16_RegisterKeepsAccounts ==
    [][/\ UsersWellFormed(users)
       /\ UsersWellFormed(users')
       /\ \A u \in Usernames, ok \in BOOLEAN :
             (/\ register(u, "pw", ok)
              /\ u = "admin" \/ \E i \in DOMAIN users : users[i].username = u)
             => /\ response' = "Validation"
                /\ UNCHANGED users
       /\ login("admin", "admin123") =>
             /\ response' = "Success"
             /\ session'.user_id = 1
             /\ session'.is_admin]_vars

\* C16 witness: a second account exists, it is not an administrator, and a
\* registration has just been rejected.
C16_Witness ==
    /\ Len(users) = 2
    /\ users[2].username = "alice"
    /\ ~users[2].is_admin
    /\ response = "Validation"
    /\ session = <<>>

\* C17: nothing guards the spot between the lookup and the commit of a
\* book_spot: a request in flight whose commit goes through books the spot its
\* lookup returned, also when another request has occupied that spot since;
\* so two requests that both looked up a lot's last free spot both claim it.
C17_CommitClaimsLookedUpSpot ==
    [][\A r \in 1..MaxInFlight :
          (/\ book_spot_commit(r, TRUE)
           /\ in_flight[r].spot_id \in DOMAIN spots)
          => /\ response' = "Success"
             /\ Len(bookings') = Len(bookings) + 1
             /\ bookings'[Len(bookings')].spot_id = in_flight[r].spot_id
             /\ bookings'[Len(bookings')].status = "active"
             /\ spots'[in_flight[r].spot_id].is_occupied]_vars

\* C17 witness: no booking has ever been checked out, and two active
\* bookings are on the only spot of a lot.
C17_Witness ==
    /\ Len(bookings) = 2
    /\ \A b \in DOMAIN bookings :
          bookings[b].status = "active" /\ bookings[b].exit_time = NULL
    /\ bookings[1].spot_id = bookings[2].spot_id
    /\ bookings[1].spot_id \in DOMAIN spots
    /\ spots[bookings[1].spot_id].is_occupied
    /\ spots[bookings[1].spot_id].lot_id \in DOMAIN lots
    /\ SpotsOf(spots[bookings[1].spot_id].lot_id) = {bookings[1].spot_id}

\* C18: in every reachable state every booking's spot_id is the id of a spot
\* that exists and every spot's lot_id is the id of a lot that exists.
C18_ReferentialIntegrity ==
    /\ \A b \in DOMAIN bookings : bookings[b].spot_id \in DOMAIN spots
    /\ \A s \in DOMAIN spots : spots[s].lot_id \in DOMAIN lots

\* C19: a step changes which lots or spots exist only under a session that
\* is logged in as administrator, and a book_spot or exit_parking under no
\* logged-in session changes no user, lot, spot or booking.
C19_CatalogChangesNeedAdmin ==
    [][/\ (DOMAIN lots' # DOMAIN lots \/ DOMAIN spots' # DOMAIN spots) => IsAdmin
       /\ \A l \in LotIds, v \in Vehicles, ok \in BOOLEAN :
             (book_spot(l, v, ok) /\ ~LoggedIn) =>
                 UNCHANGED <<users, lots, spots, bookings>>
       /\ \A b \in BookingIds, ok \in BOOLEAN :
             (exit_parking(b, ok) /\ ~LoggedIn) =>
                 UNCHANGED <<users, lots, spots, bookings>>]_vars

====
